---- MODULE Spec2Model ----
(***************************************************************************)
(* Model of the AEM toolkit: the read-only auditor (tpc.py), the           *)
(* auto-fixer (fix_xml.py) and the two PDF/XML reconciliation scripts      *)
(* (xmlsasd.py in alignment mode, Toolkit-main-revison-1/xmlsasd.py in     *)
(* containment mode).                                                      *)
(*                                                                         *)
(* Text is a sequence of one-character strings.  An ElementTree text or    *)
(* tail that is None is the empty sequence: every place of the source that *)
(* reads one tests it for truth first, or joins it through itertext(),     *)
(* and neither tells None from "".                                         *)
(***************************************************************************)
EXTENDS Integers, Sequences, FiniteSets, TLC

VARIABLES
    tool,             \* which function runs: "audit", "fix", "extract_xml_paragraphs",
                      \* "extract_xml_text", "align", "contain"
    pc,               \* position of the running script
    tree,             \* the ElementTree: node id -> [tag, attrib, text, tail, children]
    is_bits,          \* "_BITS" in filename
    cur,              \* the element root.iter() has yielded (0: exhausted)
    violation_count,  \* violation_count of the running pass
    records,          \* what print_aem_violation was called with, in order
    saved,            \* save_fixed_copy was called in this pass
    run,              \* 1: first pass, 2: the pass over the first pass's result
    first_count,      \* violation_count at the end of the first pass
    orig,             \* the tree as parsed (before any pass)
    extracted,        \* extract_xml_paragraphs' list / extract_xml_text's extracted_parts
    xml_text,         \* extract_xml_text's return value
    pdf_sent,         \* alignment: draw_comparison_graph's pdf_sent
    xml_sent,         \* alignment: draw_comparison_graph's xml_sent
    diff,             \* alignment: list(d.compare(pdf_sent, xml_sent))
    line_num,         \* alignment: line_num
    report,           \* alignment: the report entries printed so far
    pdf_paras,        \* containment: draw_table's pdf_paras
    xml_pool,         \* containment: draw_table's xml_pool
    statuses,         \* containment: status_text of the paragraphs handled so far
    found_count       \* containment: found_count

treeVars == <<tree, is_bits, cur, violation_count, records, saved, run, first_count, orig>>
extractVars == <<extracted, xml_text>>
alignVars == <<pdf_sent, xml_sent, diff, line_num, report>>
containVars == <<pdf_paras, xml_pool, statuses, found_count>>
vars == <<tool, pc, treeVars, extractVars, alignVars, containVars>>

----------------------------------------------------------------------------
(* Bounds of the model *)

\* the largest number of elements of a parsed document
MaxNodes == 3

----------------------------------------------------------------------------
(* Characters and strings *)

Letters == {"a", "b", "c", "d", "e", "f", "g", "h", "i", "j", "k", "l", "m", "n", "o",
            "p", "q", "r", "s", "t", "u", "v", "w", "x", "y", "z",
            "A", "B", "C", "D", "H", "I", "O", "P", "T", "W"}
Digits == {"0", "1", "2", "6"}
Spaces == {" "}

\* \w of the re module, on the characters of the model
IsWord(c) == c \in Letters \cup Digits

\* \s of the re module, on the characters of the model
IsSpace(c) == c \in Spaces

RECURSIVE SkipSpaces(_, _)
\* the first index >= i of s that holds no whitespace (Len(s)+1 if none)
SkipSpaces(s, i) ==
    IF i <= Len(s) /\ IsSpace(s[i]) THEN SkipSpaces(s, i + 1) ELSE i

\* where a match of (\w)-\s+(\w) that starts at i ends, 0 if none starts there
HyphenMatchEnd(s, i) ==
    IF i + 3 <= Len(s) /\ IsWord(s[i]) /\ s[i + 1] = "-" /\ IsSpace(s[i + 2])
    THEN LET j == SkipSpaces(s, i + 2)
         IN IF j <= Len(s) /\ IsWord(s[j]) THEN j ELSE 0
    ELSE 0

RECURSIVE HyphenSubFrom(_, _)
HyphenSubFrom(s, i) ==
    IF i > Len(s) THEN <<>>
    ELSE LET j == HyphenMatchEnd(s, i)
         IN IF j > 0 THEN <<s[i], s[j]>> \o HyphenSubFrom(s, j + 1)
            ELSE <<s[i]>> \o HyphenSubFrom(s, i + 1)

\* re.sub(r'(\w)-\s+(\w)', r'\1\2', s): leftmost matches, none overlapping
HyphenSub(s) == HyphenSubFrom(s, 1)

RECURSIVE LStrip(_)
LStrip(s) == IF s # <<>> /\ IsSpace(Head(s)) THEN LStrip(Tail(s)) ELSE s

RECURSIVE RStrip(_)
RStrip(s) ==
    IF s # <<>> /\ IsSpace(s[Len(s)]) THEN RStrip(SubSeq(s, 1, Len(s) - 1)) ELSE s

\* str.strip()
Strip(s) == LStrip(RStrip(s))

RECURSIVE CollapseSpaces(_)
\* re.sub(r'\s+', ' ', s)
CollapseSpaces(s) ==
    IF s = <<>> THEN <<>>
    ELSE IF IsSpace(Head(s)) THEN <<" ">> \o CollapseSpaces(LStrip(s))
    ELSE <<Head(s)>> \o CollapseSpaces(Tail(s))

\* clean_text
clean_text(s) == IF s = <<>> THEN <<>> ELSE Strip(CollapseSpaces(s))

----------------------------------------------------------------------------
(* The element tree *)

Root == 1

Range(f) == {f[i] : i \in DOMAIN f}

Elem(tg, at, tx, tl) == [tag |-> tg, attrib |-> at, text |-> tx, tail |-> tl]

\* attr in elem.attrib
HasAttr(e, attr) == \E p \in e.attrib : p[1] = attr

Parent(t, n) == CHOOSE p \in DOMAIN t : n \in Range(t[p].children)

IndexOf(seq, x) == CHOOSE i \in DOMAIN seq : seq[i] = x

RECURSIVE AfterSubtree(_, _)
\* the element the iterator yields once the subtree of n is exhausted
AfterSubtree(t, n) ==
    IF n = Root THEN 0
    ELSE LET p == Parent(t, n)
             i == IndexOf(t[p].children, n)
         IN IF i < Len(t[p].children) THEN t[p].children[i + 1]
            ELSE AfterSubtree(t, p)

\* root.iter(): what the iterator yields after n, read from the tree as it is
\* when the iterator is advanced
NextInIter(t, n) ==
    IF t[n].children # <<>> THEN Head(t[n].children) ELSE AfterSubtree(t, n)

RECURSIVE Preorder(_, _)
RECURSIVE PreorderAll(_, _)
\* list(elem.iter())
Preorder(t, n) == <<n>> \o PreorderAll(t, t[n].children)
PreorderAll(t, ns) ==
    IF ns = <<>> THEN <<>> ELSE Preorder(t, Head(ns)) \o PreorderAll(t, Tail(ns))

RECURSIVE itertext(_, _)
RECURSIVE itertextAll(_, _)
\* "".join(elem.itertext()): the text, then each child's text and tail
itertext(t, n) == t[n].text \o itertextAll(t, t[n].children)
itertextAll(t, ns) ==
    IF ns = <<>> THEN <<>>
    ELSE itertext(t, Head(ns)) \o t[Head(ns)].tail \o itertextAll(t, Tail(ns))

\* full_text = "".join(elem.itertext()).strip()
full_text(t, n) == Strip(itertext(t, n))

\* root.find(".//" + tg): the first descendant of the root with that tag, 0 for None
FindDescendant(t, tg) ==
    LET d == Tail(Preorder(t, Root))
        hits == {i \in DOMAIN d : t[d[i]].tag = tg}
    IN IF hits = {} THEN 0 ELSE d[CHOOSE i \in hits : \A k \in hits : i <= k]

\* bool(element): an Element with no children is false
Truthy(t, n) == n # 0 /\ t[n].children # <<>>

----------------------------------------------------------------------------
(* Texts of the source and of the documents of the model *)

\* new_id.text = "2021-126"
NcesDefault == <<"2", "0", "2", "1", "-", "1", "2", "6">>

\* new_loc.text = "Washington DC"
LocDefault == <<"W", "a", "s", "h", "i", "n", "g", "t", "o", "n", " ", "D", "C">>

TxtHi == <<"H", "i", " ">>
TxtOne == <<"O", "n", "e">>
TxtOneHyphen == <<"a", "-", " ", "b">>
TxtTwoHyphens == <<"a", "-", " ", "b", "-", " ", "c">>
TxtTail == <<" ", "x">>

\* what the root element of a document may be
RootKinds ==
    { Elem("article", {<<"article-type", "research">>}, <<>>, <<>>),
      Elem("article", {}, <<>>, <<>>) }

\* what any other element of a document may be
ElemKinds ==
    { Elem("article-meta", {}, <<>>, <<>>),
      Elem("book-meta", {}, <<>>, <<>>),
      Elem("article-id", {<<"pub-id-type", "nces">>}, <<"1">>, <<>>),
      Elem("article-id", {<<"pub-id-type", "doi">>}, <<"2">>, <<>>),
      Elem("publisher", {}, <<>>, <<>>),
      Elem("publisher-loc", {}, <<"D", "C">>, <<>>),
      Elem("title", {}, <<>>, <<>>),
      Elem("title", {}, TxtHi, <<>>),
      Elem("book-title", {}, <<>>, <<>>),
      Elem("bold", {}, TxtOne, <<>>),
      Elem("bold", {}, TxtTwoHyphens, TxtTail),
      Elem("disp-formula", {}, <<>>, <<>>),
      Elem("inline-formula", {<<"id", "f1">>}, <<>>, <<>>),
      Elem("fig", {}, <<>>, <<>>),
      Elem("p", {}, TxtOneHyphen, <<>>) }

\* the children of n under the parent map par, in document order
ChildrenOf(par, n) ==
    LET kids == {i \in DOMAIN par : par[i] = n}
        RECURSIVE Ordered(_)
        Ordered(S) == IF S = {} THEN <<>>
                      ELSE LET m == CHOOSE x \in S : \A y \in S : x <= y
                           IN <<m>> \o Ordered(S \ {m})
    IN Ordered(kids)

\* the parent maps of the trees of N elements: element i hangs under an earlier one
ParentMaps(N) == {f \in [2..N -> 1..N] : \A i \in 2..N : f[i] < i}

\* the document of N elements whose root is rk, whose other elements are ks[2..N]
\* and whose shape is par
Document(N, rk, ks, par) ==
    [n \in 1..N |->
        LET e == IF n = Root THEN rk ELSE ks[n]
        IN [tag |-> e.tag, attrib |-> e.attrib, text |-> e.text,
            tail |-> e.tail, children |-> ChildrenOf(par, n)]]

----------------------------------------------------------------------------
(* tpc.py: run_aem_audit *)

\* aem_rules: tag -> required_attrs
aem_rules ==
    [tg \in {"article", "article-id", "book-id", "contrib", "publisher-loc",
             "table-wrap", "fig", "graphic", "ext-link", "disp-formula",
             "inline-formula"} |->
        CASE tg = "article" -> <<"article-type">>
          [] tg \in {"article-id", "book-id"} -> <<"pub-id-type">>
          [] tg = "contrib" -> <<"contrib-type">>
          [] tg = "publisher-loc" -> <<>>
          [] tg \in {"table-wrap", "fig"} -> <<"id", "position">>
          [] tg = "graphic" -> <<"xlink:href">>
          [] tg = "ext-link" -> <<"xlink:href", "ext-link-type">>
          [] tg \in {"disp-formula", "inline-formula"} -> <<"id">>]

\* a call of print_aem_violation: the element, its tag, the violation text and the
\* attribute the violation text names ("" when it names none)
Violation(t, n, what, attr) ==
    [node |-> n, tag |-> t[n].tag, violation |-> what, attr |-> attr]

\* 1. Mandatory Attribute Check
MandatoryAttrViolations(t, n) ==
    IF t[n].tag \in DOMAIN aem_rules
    THEN LET missing == SelectSeq(aem_rules[t[n].tag], LAMBDA a : ~HasAttr(t[n], a))
         IN [i \in 1..Len(missing) |->
                Violation(t, n, "Missing mandatory attribute", missing[i])]
    ELSE <<>>

\* not any(child.tag == "publisher-loc" for child in elem)
LacksPublisherLoc(t, n) ==
    \A i \in DOMAIN t[n].children : t[t[n].children[i]].tag # "publisher-loc"

\* 2. BITS Specific: Publisher Location Rule
AuditPublisherViolations(t, n, bits) ==
    IF bits /\ t[n].tag = "publisher" /\ LacksPublisherLoc(t, n)
    THEN <<Violation(t, n, "Missing <publisher-loc>", "")>>
    ELSE <<>>

\* len(children) == 1 and children[0].tag == "bold"
OnlyChildIsBold(t, n) ==
    Len(t[n].children) = 1 /\ t[t[n].children[1]].tag = "bold"

AuditTitleTags == {"title", "article-title", "book-title"}

\* 3. Emphasis Rule: Uniform Bold in Titles
AuditEmphasisViolations(t, n) ==
    IF t[n].tag \in AuditTitleTags /\ OnlyChildIsBold(t, n)
    THEN <<Violation(t, n, "Uniform Bold Emphasis found in Title", "")>>
    ELSE <<>>

\* 4. Math Rule: IDs for Formulas
AuditMathViolations(t, n) ==
    IF t[n].tag \in {"disp-formula", "inline-formula"} /\ ~HasAttr(t[n], "id")
    THEN <<Violation(t, n, "Math Equation missing ID", "id")>>
    ELSE <<>>

\* the calls of print_aem_violation of one iteration of the audit loop, in order
AuditViolations(t, n, bits) ==
    MandatoryAttrViolations(t, n) \o AuditPublisherViolations(t, n, bits)
        \o AuditEmphasisViolations(t, n) \o AuditMathViolations(t, n)

\* the audit reaches the loop: the first element root.iter() yields is the root
AuditStart ==
    /\ tool = "audit" /\ pc = "start"
    /\ cur' = Root
    /\ violation_count' = 0
    /\ pc' = "loop"
    /\ UNCHANGED <<tool, tree, is_bits, records, saved, run, first_count, orig,
                   extractVars, alignVars, containVars>>

\* a variant of the loop body that strips the bold child it reports
AuditVisitStripping ==
    /\ tool = "audit" /\ pc = "loop" /\ cur # 0
    /\ LET vs == AuditViolations(tree, cur, is_bits)
       IN /\ records' = records \o vs
          /\ violation_count' = violation_count + Len(vs)
    /\ tree' = IF AuditEmphasisViolations(tree, cur) # <<>>
               THEN [tree EXCEPT ![cur].text = tree[tree[cur].children[1]].text,
                                 ![cur].children = <<>>]
               ELSE tree
    /\ cur' = NextInIter(tree', cur)
    /\ pc' = IF cur' = 0 THEN "summary" ELSE "loop"
    /\ UNCHANGED <<tool, is_bits, saved, run, first_count, orig,
                   extractVars, alignVars, containVars>>

\* one iteration of `for elem in root.iter()`
AuditVisit ==
    /\ tool = "audit" /\ pc = "loop" /\ cur # 0
    /\ LET vs == AuditViolations(tree, cur, is_bits)
       IN /\ records' = records \o vs
          /\ violation_count' = violation_count + Len(vs)
    /\ cur' = NextInIter(tree, cur)
    /\ pc' = IF cur' = 0 THEN "summary" ELSE "loop"
    /\ UNCHANGED <<tool, tree, is_bits, saved, run, first_count, orig,
                   extractVars, alignVars, containVars>>

\* Final Summary Dashboard
AuditSummary ==
    /\ tool = "audit" /\ pc = "summary"
    /\ pc' = "done"
    /\ UNCHANGED <<tool, treeVars, extractVars, alignVars, containVars>>

----------------------------------------------------------------------------
(* fix_xml.py: run_aem_fixer *)

\* article_meta = root.find(".//article-meta") or root.find(".//book-meta")
article_meta(t) ==
    LET am == FindDescendant(t, "article-meta")
    IN IF Truthy(t, am) THEN am ELSE FindDescendant(t, "book-meta")

\* an article-id child with pub-id-type='nces'
IsNcesId(e) == e.tag = "article-id" /\ <<"pub-id-type", "nces">> \in e.attrib

\* article_meta.find("./article-id[@pub-id-type='nces']") is not None
HasNcesId(t, m) == \E i \in DOMAIN t[m].children : IsNcesId(t[t[m].children[i]])

\* the id of the next element created
FreshNode(t) == Cardinality(DOMAIN t) + 1

\* article_meta.insert(0, new_id)
InsertNcesId(t, m) ==
    LET k == FreshNode(t)
    IN [n \in DOMAIN t \cup {k} |->
          IF n = k
          THEN [tag |-> "article-id", attrib |-> {<<"pub-id-type", "nces">>},
                text |-> NcesDefault, tail |-> <<>>, children |-> <<>>]
          ELSE IF n = m THEN [t[n] EXCEPT !.children = <<k>> \o @]
          ELSE t[n]]

\* FRONT MATTER CHECK (NCES SPECIFIC), then the loop's first element
FixFrontMatter ==
    /\ tool = "fix" /\ pc = "front"
    /\ LET m == article_meta(tree)
       IN IF m # 0 /\ ~HasNcesId(tree, m)
          THEN /\ violation_count' = 1
               /\ tree' = InsertNcesId(tree, m)
               /\ records' = <<[node |-> FreshNode(tree), tag |-> "article-id",
                                violation |-> "Missing NCES ID", attr |-> ""]>>
          ELSE /\ violation_count' = 0
               /\ tree' = tree
               /\ records' = <<>>
    /\ cur' = Root
    /\ pc' = "publisher"
    /\ UNCHANGED <<tool, is_bits, saved, run, first_count, orig,
                   extractVars, alignVars, containVars>>

\* tag == "publisher" and not any(c.tag == "publisher-loc" for c in elem); is_bits is
\* not read
PublisherFires(t, n) == t[n].tag = "publisher" /\ LacksPublisherLoc(t, n)

\* elem.append(new_loc)
AppendPublisherLoc(t, n) ==
    LET k == FreshNode(t)
    IN [x \in DOMAIN t \cup {k} |->
          IF x = k
          THEN [tag |-> "publisher-loc", attrib |-> {}, text |-> LocDefault,
                tail |-> <<>>, children |-> <<>>]
          ELSE IF x = n THEN [t[x] EXCEPT !.children = Append(@, k)]
          ELSE t[x]]

\* RULE: Publisher Loc
FixPublisherLoc ==
    /\ tool = "fix" /\ pc = "publisher"
    /\ IF PublisherFires(tree, cur)
       THEN /\ violation_count' = violation_count + 1
            /\ tree' = AppendPublisherLoc(tree, cur)
            /\ records' = Append(records,
                                 Violation(tree, cur, "Missing Publisher Loc", ""))
       ELSE UNCHANGED <<violation_count, tree, records>>
    /\ pc' = "bold"
    /\ UNCHANGED <<tool, is_bits, cur, saved, run, first_count, orig,
                   extractVars, alignVars, containVars>>

FixTitleTags == {"title", "article-title"}

\* tag in ["title", "article-title"] and len(list(elem)) == 1 and list(elem)[0].tag == "bold"
BoldFires(t, n) == t[n].tag \in FixTitleTags /\ OnlyChildIsBold(t, n)

\* elem.text = child.text; elem.remove(child)
StripBold(t, n) ==
    [t EXCEPT ![n].text = t[t[n].children[1]].text, ![n].children = <<>>]

\* RULE: Uniform Bold in Titles
FixUniformBold ==
    /\ tool = "fix" /\ pc = "bold"
    /\ IF BoldFires(tree, cur)
       THEN /\ violation_count' = violation_count + 1
            /\ tree' = StripBold(tree, cur)
            /\ records' = Append(records,
                                 Violation(tree, cur, "Uniform Bold Removal", ""))
       ELSE UNCHANGED <<violation_count, tree, records>>
    /\ pc' = "hyphen"
    /\ UNCHANGED <<tool, is_bits, cur, saved, run, first_count, orig,
                   extractVars, alignVars, containVars>>

\* a variant of the soft-hyphen test that counts every element that has text
HyphenFiresOnAnyText(t, n) == t[n].text # <<>>

\* if elem.text: cleaned = re.sub(...); if cleaned != elem.text
HyphenFires(t, n) == t[n].text # <<>> /\ HyphenSub(t[n].text) # t[n].text

\* RULE: PDF Hyphens/Spaces, then the loop's next element
FixSoftHyphen ==
    /\ tool = "fix" /\ pc = "hyphen"
    /\ IF HyphenFires(tree, cur)
       THEN /\ violation_count' = violation_count + 1
            /\ tree' = [tree EXCEPT ![cur].text = HyphenSub(@)]
            /\ records' = Append(records,
                                 Violation(tree, cur, "Soft-hyphen Artifact", ""))
       ELSE UNCHANGED <<violation_count, tree, records>>
    /\ cur' = NextInIter(tree', cur)
    /\ pc' = IF cur' = 0 THEN "save" ELSE "publisher"
    /\ UNCHANGED <<tool, is_bits, saved, run, first_count, orig,
                   extractVars, alignVars, containVars>>

\* if violation_count > 0: save_fixed_copy(tree, xml_path)
FixSave ==
    /\ tool = "fix" /\ pc = "save"
    /\ saved' = (violation_count > 0)
    /\ first_count' = IF run = 1 THEN violation_count ELSE first_count
    /\ pc' = "done"
    /\ UNCHANGED <<tool, tree, is_bits, cur, violation_count, records, run, orig,
                   extractVars, alignVars, containVars>>

\* run_aem_fixer is called again, on the tree the first pass left
FixAgain ==
    /\ tool = "fix" /\ pc = "done" /\ run = 1
    /\ run' = 2
    /\ pc' = "front"
    /\ violation_count' = 0
    /\ records' = <<>>
    /\ saved' = FALSE
    /\ cur' = 0
    /\ UNCHANGED <<tool, tree, is_bits, first_count, orig,
                   extractVars, alignVars, containVars>>

----------------------------------------------------------------------------
(* The auditor and the fixer over the documents of the model *)

NoExtract == /\ extracted = <<>> /\ xml_text = <<>>
NoAlign == /\ pdf_sent = <<>> /\ xml_sent = <<>> /\ diff = <<>>
           /\ line_num = 0 /\ report = <<>>
NoContain == /\ pdf_paras = <<>> /\ xml_pool = <<>> /\ statuses = <<>>
             /\ found_count = 0

Init ==
    /\ tool \in {"audit", "fix"}
    /\ pc = IF tool = "audit" THEN "start" ELSE "front"
    /\ \E N \in 1..MaxNodes, rk \in RootKinds :
         \E ks \in [2..N -> ElemKinds], par \in ParentMaps(N) :
            tree = Document(N, rk, ks, par)
    /\ orig = tree
    /\ is_bits \in BOOLEAN
    /\ cur = 0
    /\ violation_count = 0
    /\ records = <<>>
    /\ saved = FALSE
    /\ run = 1
    /\ first_count = 0
    /\ NoExtract /\ NoAlign /\ NoContain

Next ==
    \/ AuditStart
    \/ AuditVisit
    \/ AuditSummary
    \/ FixFrontMatter
    \/ FixPublisherLoc
    \/ FixUniformBold
    \/ FixSoftHyphen
    \/ FixSave
    \/ FixAgain

Spec == Init /\ [][Next]_vars

----------------------------------------------------------------------------
(* The XML-side text extractors of the two reconciliation scripts *)

TxtFox == <<"T", "h", "e", " ", "q", "u", "i", "c", "k", " ", "b", "r", "o", "w", "n", " ", "f", "o", "x", " ">>
TxtJumps == <<"j", "u", "m", "p", "s", " ", "o", "v", "e", "r">>
TxtLazy == <<" ", "t", "h", "e", " ", "l", "a", "z", "y", " ", "d", "o", "g", ".">>
TxtAfter == <<" ", "A", "f", "t", "e", "r", ".">>
TxtIntro == <<"I", "n", "t", "r", "o", "d", "u", "c", "t", "i", "o", "n", " ", "t", "o", " ", "m", "e", "t", "h", "o", "d", "s">>
TxtPage == <<"P", "a", "g", "e", " ", "1">>

\* what an element below the root may be in the documents the extractors read
ContentKinds ==
    { Elem("p", {}, TxtFox, <<>>),
      Elem("p", {}, TxtFox, TxtAfter),
      Elem("p", {}, TxtPage, <<>>),
      Elem("italic", {}, TxtJumps, TxtLazy),
      Elem("title", {}, TxtIntro, <<>>),
      Elem("sec", {}, <<>>, <<>>) }

\* " ".join(parts)
RECURSIVE JoinWithSpace(_)
JoinWithSpace(parts) ==
    IF parts = <<>> THEN <<>>
    ELSE IF Len(parts) = 1 THEN parts[1]
    ELSE parts[1] \o <<" ">> \o JoinWithSpace(Tail(parts))

\* content_tags of extract_xml_paragraphs
ParagraphContentTags == {"p", "article-title", "title", "td", "term", "def", "abstract"}

\* content_tags of extract_xml_text
TextContentTags ==
    {"article-title", "book-title", "subtitle", "p", "title", "label", "td", "term", "def"}

\* if len(clean_p) > 20
MinParagraphLen == 20

\* extract_xml_paragraphs: one iteration of `for elem in root.iter()`
ExtractParagraphsVisit ==
    /\ tool = "extract_xml_paragraphs" /\ pc = "loop" /\ cur # 0
    /\ extracted' =
          IF tree[cur].tag \in ParagraphContentTags
          THEN LET clean_p == clean_text(itertext(tree, cur))
               IN IF Len(clean_p) > MinParagraphLen THEN Append(extracted, clean_p)
                  ELSE extracted
          ELSE extracted
    /\ cur' = NextInIter(tree, cur)
    /\ pc' = IF cur' = 0 THEN "done" ELSE "loop"
    /\ UNCHANGED <<tool, tree, is_bits, violation_count, records, saved, run,
                   first_count, orig, xml_text, alignVars, containVars>>

\* what one iteration of extract_xml_text's loop appends for element n
TextParts(t, n) ==
    IF t[n].tag \in TextContentTags
    THEN (IF Strip(t[n].text) # <<>> THEN <<Strip(t[n].text)>> ELSE <<>>)
         \o (IF Strip(t[n].tail) # <<>> THEN <<Strip(t[n].tail)>> ELSE <<>>)
    ELSE <<>>

\* extract_xml_text: one iteration of `for elem in root.iter()`
ExtractTextVisit ==
    /\ tool = "extract_xml_text" /\ pc = "loop" /\ cur # 0
    /\ extracted' = extracted \o TextParts(tree, cur)
    /\ cur' = NextInIter(tree, cur)
    /\ pc' = IF cur' = 0 THEN "join" ELSE "loop"
    /\ UNCHANGED <<tool, tree, is_bits, violation_count, records, saved, run,
                   first_count, orig, xml_text, alignVars, containVars>>

\* return clean_text(" ".join(extracted_parts))
ExtractTextReturn ==
    /\ tool = "extract_xml_text" /\ pc = "join"
    /\ xml_text' = clean_text(JoinWithSpace(extracted))
    /\ pc' = "done"
    /\ UNCHANGED <<tool, treeVars, extracted, alignVars, containVars>>

InitExtract ==
    /\ tool \in {"extract_xml_paragraphs", "extract_xml_text"}
    /\ pc = "loop"
    /\ \E N \in 1..MaxNodes, rk \in RootKinds :
         \E ks \in [2..N -> ContentKinds], par \in ParentMaps(N) :
            tree = Document(N, rk, ks, par)
    /\ orig = tree
    /\ is_bits = FALSE
    /\ cur = Root
    /\ violation_count = 0
    /\ records = <<>>
    /\ saved = FALSE
    /\ run = 1
    /\ first_count = 0
    /\ NoExtract /\ NoAlign /\ NoContain

NextExtract ==
    \/ ExtractParagraphsVisit
    \/ ExtractTextVisit
    \/ ExtractTextReturn

SpecExtract == InitExtract /\ [][NextExtract]_vars

----------------------------------------------------------------------------
(* difflib, as xmlsasd.py uses it: Differ() with no junk filter.  Indices are      *)
(* Python's: a[i] of the source is a[i + 1] here, ranges are half open.  The       *)
(* "popular element" heuristic of SequenceMatcher needs a sequence of 200          *)
(* elements and plays no part below that.                                          *)

Min(x, y) == IF x <= y THEN x ELSE y

\* a[i : i + k] == b[j : j + k]
SameRun(a, b, i, j, k) == \A d \in 0..(k - 1) : a[i + d + 1] = b[j + d + 1]

\* SequenceMatcher.find_longest_match: the longest common run of a[alo:ahi] and
\* b[blo:bhi], of those the one starting earliest in a, of those the one starting
\* earliest in b; <<alo, blo, 0>> when there is none
find_longest_match(a, b, alo, ahi, blo, bhi) ==
    LET runs == {m \in (alo..(ahi - 1)) \X (blo..(bhi - 1)) \X (1..Min(ahi - alo, bhi - blo)) :
                    /\ m[1] + m[3] <= ahi
                    /\ m[2] + m[3] <= bhi
                    /\ SameRun(a, b, m[1], m[2], m[3])}
        Better(m, o) == \/ m[3] > o[3]
                        \/ m[3] = o[3] /\ m[1] < o[1]
                        \/ m[3] = o[3] /\ m[1] = o[1] /\ m[2] <= o[2]
    IN IF runs = {} THEN <<alo, blo, 0>>
       ELSE CHOOSE m \in runs : \A o \in runs : Better(m, o)

RECURSIVE MatchesIn(_, _, _, _, _, _)
\* the matching blocks of a[alo:ahi] and b[blo:bhi], left to right
MatchesIn(a, b, alo, ahi, blo, bhi) ==
    IF alo >= ahi \/ blo >= bhi THEN <<>>
    ELSE LET m == find_longest_match(a, b, alo, ahi, blo, bhi)
         IN IF m[3] = 0 THEN <<>>
            ELSE MatchesIn(a, b, alo, m[1], blo, m[2]) \o <<m>>
                 \o MatchesIn(a, b, m[1] + m[3], ahi, m[2] + m[3], bhi)

RECURSIVE CollapseAdjacent(_)
\* adjacent equal blocks are merged into one
CollapseAdjacent(ms) ==
    IF Len(ms) < 2 THEN ms
    ELSE LET x == ms[1]
             y == ms[2]
         IN IF x[1] + x[3] = y[1] /\ x[2] + x[3] = y[2]
            THEN CollapseAdjacent(<<<<x[1], x[2], x[3] + y[3]>>>> \o Tail(Tail(ms)))
            ELSE <<x>> \o CollapseAdjacent(Tail(ms))

\* SequenceMatcher.get_matching_blocks, the sentinel (la, lb, 0) last
get_matching_blocks(a, b) ==
    CollapseAdjacent(MatchesIn(a, b, 0, Len(a), 0, Len(b))) \o <<<<Len(a), Len(b), 0>>>>

RECURSIVE OpcodesFrom(_, _, _)
\* SequenceMatcher.get_opcodes: the loop over the matching blocks, (i, j) being where
\* the previous block ended
OpcodesFrom(blocks, i, j) ==
    IF blocks = <<>> THEN <<>>
    ELSE LET ai == blocks[1][1]
             bj == blocks[1][2]
             size == blocks[1][3]
             tg == IF i < ai /\ j < bj THEN "replace"
                   ELSE IF i < ai THEN "delete"
                   ELSE IF j < bj THEN "insert"
                   ELSE ""
         IN (IF tg # "" THEN <<<<tg, i, ai, j, bj>>>> ELSE <<>>)
            \o (IF size > 0 THEN <<<<"equal", ai, ai + size, bj, bj + size>>>> ELSE <<>>)
            \o OpcodesFrom(Tail(blocks), ai + size, bj + size)

get_opcodes(a, b) == OpcodesFrom(get_matching_blocks(a, b), 0, 0)

RECURSIVE SumSizes(_)
SumSizes(blocks) == IF blocks = <<>> THEN 0 ELSE blocks[1][3] + SumSizes(Tail(blocks))

\* SequenceMatcher.ratio() as the fraction <<2 * matches, len(a) + len(b)>>
ratio(a, b) ==
    IF Len(a) + Len(b) = 0 THEN <<1, 1>>
    ELSE <<2 * SumSizes(get_matching_blocks(a, b)), Len(a) + Len(b)>>

\* x > y, x < y on fractions with positive denominators
FracGreater(x, y) == x[1] * y[2] > y[1] * x[2]
FracLess(x, y) == x[1] * y[2] < y[1] * x[2]

\* best_ratio, cutoff = 0.74, 0.75
InitialBestRatio == <<74, 100>>
Cutoff == <<75, 100>>

RECURSIVE Repeat(_, _)
\* c * n
Repeat(c, n) == IF n <= 0 THEN <<>> ELSE <<c>> \o Repeat(c, n - 1)

\* Differ._dump: one line "<tag> <x[i]>" for each i of lo..hi-1
dump(tg, x, lo, hi) == [k \in 1..(hi - lo) |-> <<tg, " ">> \o x[lo + k]]

\* Differ._plain_replace: the shorter block is dumped first
plain_replace(a, alo, ahi, b, blo, bhi) ==
    IF bhi - blo < ahi - alo
    THEN dump("+", b, blo, bhi) \o dump("-", a, alo, ahi)
    ELSE dump("-", a, alo, ahi) \o dump("+", b, blo, bhi)

RECURSIVE ScanPairs(_, _, _, _, _, _, _, _)
\* the search loop of Differ._fancy_replace from its k-th pair on (j outer, i inner);
\* st = [best_ratio, best_i, best_j, eqi, eqj], -1 standing for None.  The two quick
\* ratios are upper bounds of ratio() and change nothing of the outcome.
ScanPairs(a, alo, ahi, b, blo, bhi, k, st) ==
    IF k >= (ahi - alo) * (bhi - blo) THEN st
    ELSE LET j == blo + (k \div (ahi - alo))
             i == alo + (k % (ahi - alo))
             ai == a[i + 1]
             bj == b[j + 1]
             nxt == IF ai = bj
                    THEN IF st.eqi = -1 THEN [st EXCEPT !.eqi = i, !.eqj = j] ELSE st
                    ELSE IF FracGreater(ratio(ai, bj), st.best_ratio)
                         THEN [st EXCEPT !.best_ratio = ratio(ai, bj),
                                         !.best_i = i, !.best_j = j]
                         ELSE st
         IN ScanPairs(a, alo, ahi, b, blo, bhi, k + 1, nxt)

RECURSIVE TagsFrom(_, _)
\* atags and btags of the intraline marking, from the opcodes of the synch pair
TagsFrom(ops, side) ==
    IF ops = <<>> THEN <<>>
    ELSE LET op == ops[1]
             la == op[3] - op[2]
             lb == op[5] - op[4]
             here == CASE op[1] = "replace" -> Repeat("^", IF side = "a" THEN la ELSE lb)
                       [] op[1] = "delete" -> IF side = "a" THEN Repeat("-", la) ELSE <<>>
                       [] op[1] = "insert" -> IF side = "b" THEN Repeat("+", lb) ELSE <<>>
                       [] op[1] = "equal" -> Repeat(" ", IF side = "a" THEN la ELSE lb)
         IN here \o TagsFrom(Tail(ops), side)

\* _keep_original_ws(s, tag_s)
keep_original_ws(s, tag_s) ==
    [k \in 1..Min(Len(s), Len(tag_s)) |->
        IF tag_s[k] = " " /\ IsSpace(s[k]) THEN s[k] ELSE tag_s[k]]

\* Differ._qformat
qformat(aline, bline, atags, btags) ==
    LET at == RStrip(keep_original_ws(aline, atags))
        bt == RStrip(keep_original_ws(bline, btags))
    IN <<<<"-", " ">> \o aline>>
       \o (IF at # <<>> THEN <<<<"?", " ">> \o at \o <<"\n">>>> ELSE <<>>)
       \o <<<<"+", " ">> \o bline>>
       \o (IF bt # <<>> THEN <<<<"?", " ">> \o bt \o <<"\n">>>> ELSE <<>>)

RECURSIVE fancy_replace(_, _, _, _, _, _)
RECURSIVE fancy_helper(_, _, _, _, _, _)
\* Differ._fancy_replace
fancy_replace(a, alo, ahi, b, blo, bhi) ==
    LET found == ScanPairs(a, alo, ahi, b, blo, bhi, 0,
                           [best_ratio |-> InitialBestRatio, best_i |-> -1,
                            best_j |-> -1, eqi |-> -1, eqj |-> -1])
        close == ~FracLess(found.best_ratio, Cutoff)
    IN IF ~close /\ found.eqi = -1
       THEN plain_replace(a, alo, ahi, b, blo, bhi)
       ELSE LET best_i == IF close THEN found.best_i ELSE found.eqi
                best_j == IF close THEN found.best_j ELSE found.eqj
                aelt == a[best_i + 1]
                belt == b[best_j + 1]
                ops == get_opcodes(aelt, belt)
            IN fancy_helper(a, alo, best_i, b, blo, best_j)
               \o (IF close
                   THEN qformat(aelt, belt, TagsFrom(ops, "a"), TagsFrom(ops, "b"))
                   ELSE <<<<" ", " ">> \o aelt>>)
               \o fancy_helper(a, best_i + 1, ahi, b, best_j + 1, bhi)

\* Differ._fancy_helper
fancy_helper(a, alo, ahi, b, blo, bhi) ==
    IF alo < ahi
    THEN IF blo < bhi THEN fancy_replace(a, alo, ahi, b, blo, bhi)
         ELSE dump("-", a, alo, ahi)
    ELSE IF blo < bhi THEN dump("+", b, blo, bhi)
    ELSE <<>>

RECURSIVE DumpOpcodes(_, _, _)
\* the loop of Differ.compare over the opcodes
DumpOpcodes(a, b, ops) ==
    IF ops = <<>> THEN <<>>
    ELSE LET op == ops[1]
             g == CASE op[1] = "replace" -> fancy_replace(a, op[2], op[3], b, op[4], op[5])
                    [] op[1] = "delete" -> dump("-", a, op[2], op[3])
                    [] op[1] = "insert" -> dump("+", b, op[4], op[5])
                    [] op[1] = "equal" -> dump(" ", a, op[2], op[3])
         IN g \o DumpOpcodes(a, b, Tail(ops))

\* list(Differ().compare(a, b))
compare(a, b) == DumpOpcodes(a, b, get_opcodes(a, b))

----------------------------------------------------------------------------
(* xmlsasd.py: draw_comparison_graph (alignment mode) *)

\* the longest sentence sequence of either side
MaxSent == 3

SentA == <<"A", ".">>
SentB == <<"B", ".">>
SentC == <<"C", ".">>
SentAbc == <<"a", "b", "c", ".">>
SentAbd == <<"a", "b", "d", ".">>

Sentences == {SentA, SentB, SentC, SentAbc, SentAbd}

SeqsUpTo(S, n) == UNION {[1..k -> S] : k \in 0..n}

\* d = difflib.Differ(); diff = list(d.compare(pdf_sent, xml_sent)); line_num = 1
AlignCompare ==
    /\ tool = "align" /\ pc = "compare"
    /\ diff' = compare(pdf_sent, xml_sent)
    /\ line_num' = 1
    /\ report' = <<>>
    /\ pc' = "loop"
    /\ UNCHANGED <<tool, treeVars, extractVars, pdf_sent, xml_sent, containVars>>

\* the branch the loop body takes for an entry: status = entry[0] is one character,
\* and the first test compares it with the two-character string '  '
BranchOf(entry) ==
    LET status == entry[1]
    IN IF status = "  " THEN "MATCHED"
       ELSE IF status = "-" THEN "MISSING_FROM_XML"
       ELSE IF status = "+" THEN "EXTRA_IN_XML"
       ELSE "NONE"

\* one iteration of `for entry in diff`: the branch taken, the line number it shows,
\* the sentence (entry[2:]) and whether anything was printed; then line_num += 1
AlignEntry ==
    /\ tool = "align" /\ pc = "loop" /\ Len(report) < Len(diff)
    /\ LET entry == diff[Len(report) + 1]
           branch == BranchOf(entry)
       IN report' = Append(report,
                           [line |-> line_num,
                            class |-> branch,
                            sentence |-> SubSeq(entry, 3, Len(entry)),
                            printed |-> CASE branch = "MATCHED" -> line_num % 15 = 0
                                          [] branch = "NONE" -> FALSE
                                          [] OTHER -> TRUE])
    /\ line_num' = line_num + 1
    /\ UNCHANGED <<tool, pc, treeVars, extractVars, pdf_sent, xml_sent, diff, containVars>>

\* the loop is over: the closing rule is printed
AlignDone ==
    /\ tool = "align" /\ pc = "loop" /\ Len(report) = Len(diff)
    /\ pc' = "done"
    /\ UNCHANGED <<tool, treeVars, extractVars, alignVars, containVars>>

NoTree ==
    /\ tree = <<>> /\ orig = <<>> /\ is_bits = FALSE /\ cur = 0
    /\ violation_count = 0 /\ records = <<>> /\ saved = FALSE
    /\ run = 1 /\ first_count = 0

InitAlign ==
    /\ tool = "align"
    /\ pc = "compare"
    /\ pdf_sent \in SeqsUpTo(Sentences, MaxSent)
    /\ xml_sent \in SeqsUpTo(Sentences, MaxSent)
    /\ diff = <<>>
    /\ line_num = 0
    /\ report = <<>>
    /\ NoTree /\ NoExtract /\ NoContain

NextAlign ==
    \/ AlignCompare
    \/ AlignEntry
    \/ AlignDone

SpecAlign == InitAlign /\ [][NextAlign]_vars

----------------------------------------------------------------------------
(* Toolkit-main-revison-1/xmlsasd.py: draw_table (containment mode) *)

\* the longest list of PDF paragraphs
MaxParas == 2

\* the longest list of XML paragraphs
MaxPool == 2

\* str.lower() on one character of the model
LowerChar(c) ==
    CASE c = "A" -> "a" [] c = "B" -> "b" [] c = "C" -> "c" [] c = "D" -> "d"
      [] c = "H" -> "h" [] c = "I" -> "i" [] c = "O" -> "o" [] c = "P" -> "p"
      [] c = "Q" -> "q" [] c = "T" -> "t" [] c = "W" -> "w" [] OTHER -> c

\* str.lower()
Lower(s) == [k \in DOMAIN s |-> LowerChar(s[k])]

\* x in y, on strings
IsSubstring(x, y) ==
    \E k \in 0..(Len(y) - Len(x)) : SubSeq(y, k + 1, k + Len(x)) = x

\* the 60 of para.lower()[:60]
PrefixLen == 60

\* s[:n]
Prefix(s, n) == SubSeq(s, 1, Min(Len(s), n))

\* match = any(para.lower()[:60] in x for x in xml_pool_lower)
Matches(para, pool) ==
    \E k \in DOMAIN pool : IsSubstring(Prefix(Lower(para), PrefixLen), Lower(pool[k]))

XmlFox == <<"T", "h", "e", " ", "q", "u", "i", "c", "k", " ", "b", "r", "o", "w", "n", " ",
      "f", "o", "x", ".">>
XmlRain == <<"A", "f", "t", "e", "r", " ", "t", "h", "e", " ", "r", "a", "i", "n", ".">>
XmlLong ==
    <<"I", "n", " ", "t", "h", "i", "s", " ", "s", "t", "u", "d", "y", " ", "w", "e",
          " ", "m", "e", "a", "s", "u", "r", "e", " ", "t", "h", "e", " ", "g", "r", "o",
          "w", "t", "h", " ", "o", "f", " ", "p", "l", "a", "n", "t", "s", " ", "u", "n",
          "d", "e", "r", " ", "r", "e", "d", " ", "l", "i", "g", "h", "t", " ", "a", "n",
          "d", " ", "b", "l", "u", "e", ".">>

PdfFox == <<"t", "h", "e", " ", "Q", "u", "i", "c", "k", " ", "b", "r", "o", "w", "n">>
PdfSpanning == <<"f", "o", "x", ".", "A", "f", "t", "e", "r">>
PdfNothing == <<"N", "o", "t", "h", "i", "n", "g", " ", "h", "e", "r", "e", ".">>
PdfLong ==
    <<"I", "n", " ", "t", "h", "i", "s", " ", "s", "t", "u", "d", "y", " ", "w", "e",
          " ", "m", "e", "a", "s", "u", "r", "e", " ", "t", "h", "e", " ", "g", "r", "o",
          "w", "t", "h", " ", "o", "f", " ", "p", "l", "a", "n", "t", "s", " ", "u", "n",
          "d", "e", "r", " ", "r", "e", "d", " ", "l", "i", "g", "h", " ", "O", "t", "h",
          "e", "r", " ", "e", "n", "d", "!">>

XmlUnits == {XmlFox, XmlRain, XmlLong}
PdfUnits == {PdfFox, PdfSpanning, PdfNothing, PdfLong}

\* the main flow: if not pdf_content: print(...); return -- else draw_table
ContainMain ==
    /\ tool = "contain" /\ pc = "main"
    /\ pc' = IF pdf_paras = <<>> THEN "no_pdf_text" ELSE "table"
    /\ UNCHANGED <<tool, treeVars, extractVars, alignVars, containVars>>

\* one iteration of `for para in pdf_paras`
ContainPara ==
    /\ tool = "contain" /\ pc = "table" /\ Len(statuses) < Len(pdf_paras)
    /\ LET para == pdf_paras[Len(statuses) + 1]
           match == Matches(para, xml_pool)
       IN /\ statuses' = Append(statuses, IF match THEN "FOUND" ELSE "MISSING")
          /\ found_count' = IF match THEN found_count + 1 ELSE found_count
    /\ UNCHANGED <<tool, pc, treeVars, extractVars, alignVars, pdf_paras, xml_pool>>

\* Footer summary
ContainSummary ==
    /\ tool = "contain" /\ pc = "table" /\ Len(statuses) = Len(pdf_paras)
    /\ pc' = "done"
    /\ UNCHANGED <<tool, treeVars, extractVars, alignVars, containVars>>

InitContain ==
    /\ tool = "contain"
    /\ pc = "main"
    /\ pdf_paras \in SeqsUpTo(PdfUnits, MaxParas)
    /\ xml_pool \in SeqsUpTo(XmlUnits, MaxPool)
    /\ statuses = <<>>
    /\ found_count = 0
    /\ NoTree /\ NoExtract /\ NoAlign

NextContain ==
    \/ ContainMain
    \/ ContainPara
    \/ ContainSummary

SpecContain == InitContain /\ [][NextContain]_vars

----------------------------------------------------------------------------
(* Claims about the auditor and the fixer *)

\* C1: when the fixer pass has run again on the tree its first pass left, the second
\* pass has applied no fix (violation_count = 0).
C1_FixerIdempotent ==
    (tool = "fix" /\ run = 2 /\ pc = "done") => violation_count = 0

\* the records the audit emitted for element n that name attribute a
RecordsNaming(n, a) ==
    {i \in DOMAIN records : records[i].node = n /\ records[i].attr = a}

\* the records the audit emitted for element n with violation text w
RecordsSaying(n, w) ==
    {i \in DOMAIN records : records[i].node = n /\ records[i].violation = w}

RuleAttrs == UNION {Range(aem_rules[tg]) : tg \in DOMAIN aem_rules}

\* element n fails the rule "tag(n) must carry attribute a"
FailsAttrRule(t, n, a) ==
    /\ t[n].tag \in DOMAIN aem_rules
    /\ a \in Range(aem_rules[t[n].tag])
    /\ ~HasAttr(t[n], a)

\* C2: when the audit has finished, every element has exactly one record for each
\* mandatory attribute it lacks and none for any other attribute, exactly one
\* publisher-location record if it fails that rule (BITS only) and none otherwise,
\* and exactly one uniform-emphasis record if it fails that rule and none otherwise.
C2_AuditExhaustive ==
    (tool = "audit" /\ pc = "done") =>
        \A n \in DOMAIN tree :
            /\ \A a \in RuleAttrs :
                 Cardinality(RecordsNaming(n, a)) =
                     IF FailsAttrRule(tree, n, a) THEN 1 ELSE 0
            /\ Cardinality(RecordsSaying(n, "Missing <publisher-loc>")) =
                 IF is_bits /\ tree[n].tag = "publisher" /\ LacksPublisherLoc(tree, n)
                 THEN 1 ELSE 0
            /\ Cardinality(RecordsSaying(n, "Uniform Bold Emphasis found in Title")) =
                 IF tree[n].tag \in AuditTitleTags /\ OnlyChildIsBold(tree, n)
                 THEN 1 ELSE 0

\* C5: at every point of an audit the tree is the tree that was parsed: no element's
\* tag, attributes, text, tail or children have changed.
C5_AuditReadOnly == tool = "audit" => tree = orig

\* an audit has finished and has reported a uniform-emphasis violation among others
C5_Witness ==
    /\ tool = "audit" /\ pc = "done" /\ Len(records) >= 2
    /\ \E i \in DOMAIN records :
          records[i].violation = "Uniform Bold Emphasis found in Title"

\* C6: every step of a fixer pass raises violation_count by one, emits one record and
\* changes the tree, or does none of the three; and save_fixed_copy has been called
\* exactly when the pass is over and violation_count > 0.
C6_FixReportLockstep ==
    /\ [](tool = "fix" => (saved <=> (pc = "done" /\ violation_count > 0)))
    /\ [][(tool = "fix" /\ run' = run) =>
            LET d == IF tree' # tree THEN 1 ELSE 0
            IN /\ violation_count' = violation_count + d
               /\ Len(records') = Len(records) + d]_vars

\* a pass has ended with two fixes applied, reported and saved
C6_Witness ==
    /\ tool = "fix" /\ pc = "done" /\ saved
    /\ violation_count >= 2 /\ Len(records) = violation_count /\ tree # orig

\* C7: when the document is not flagged BITS, no record reports a missing
\* publisher-loc and no publisher-loc element has been added to the tree.
C7_PublisherRuleGated ==
    ~is_bits =>
        /\ \A i \in DOMAIN records :
              records[i].violation \notin {"Missing <publisher-loc>", "Missing Publisher Loc"}
        /\ \A n \in DOMAIN tree \ DOMAIN orig : tree[n].tag # "publisher-loc"

\* the metadata root: article-meta, else book-meta (0 if the document has neither)
MetadataRoot(t) ==
    IF FindDescendant(t, "article-meta") # 0 THEN FindDescendant(t, "article-meta")
    ELSE FindDescendant(t, "book-meta")

\* C8: once the front-matter check of the first pass is over, if the parsed document
\* had a metadata root with no article-id[@pub-id-type='nces'] child (children or not),
\* the first child of that metadata root is such an identifier holding the default
\* value, and the first record of the pass reports the fix.
C8_FrontMatterIdInserted ==
    (tool = "fix" /\ run = 1 /\ pc # "front") =>
        LET m == MetadataRoot(orig)
        IN (m # 0 /\ ~HasNcesId(orig, m)) =>
              /\ tree[m].children # <<>>
              /\ IsNcesId(tree[Head(tree[m].children)])
              /\ tree[Head(tree[m].children)].text = NcesDefault
              /\ violation_count >= 1
              /\ records # <<>> /\ records[1].violation = "Missing NCES ID"

\* C9: whenever the fixer's uniform-bold rule fires on an element, the element had no
\* direct text and its one bold child had no tail and no children; afterwards the
\* element has the child's text, no children, and the same flattened text as before.
C9_EmphasisFixKeepsText ==
    [][(tool = "fix" /\ pc = "bold" /\ violation_count' = violation_count + 1) =>
         LET child == tree[cur].children[1]
         IN /\ tree[cur].text = <<>>
            /\ tree[child].tail = <<>>
            /\ tree[child].children = <<>>
            /\ tree'[cur].text = tree[child].text
            /\ tree'[cur].children = <<>>
            /\ itertext(tree', cur) = itertext(tree, cur)]_vars

----------------------------------------------------------------------------
(* Claims about the extractors *)

\* the elements of the tree, in document order, whose tag is in tags
ContentNodes(t, tags) == SelectSeq(Preorder(t, Root), LAMBDA n : t[n].tag \in tags)

\* the cleaned flattened text of each element of ns, in order
FlattenedTexts(t, ns) == [i \in DOMAIN ns |-> clean_text(itertext(t, ns[i]))]

\* C10: when an extractor has finished, what it has produced is the flattened text
\* (direct text, descendants' text and their tails, nothing else) of every
\* content-bearing element in document order: as the list of the texts longer than
\* the minimum length (extract_xml_paragraphs), as their space-joined, cleaned
\* concatenation (extract_xml_text).
C10_ExtractWholeText ==
    pc = "done" =>
        /\ tool = "extract_xml_paragraphs" =>
              extracted = SelectSeq(FlattenedTexts(tree, ContentNodes(tree, ParagraphContentTags)),
                                    LAMBDA s : Len(s) > MinParagraphLen)
        /\ tool = "extract_xml_text" =>
              xml_text = clean_text(JoinWithSpace(
                            SelectSeq(FlattenedTexts(tree, ContentNodes(tree, TextContentTags)),
                                      LAMBDA s : s # <<>>)))

----------------------------------------------------------------------------
(* Claims about the reconciliation *)

\* the sentences of the report entries whose class is in cs, in report order
SentencesClassed(cs) ==
    LET kept == SelectSeq(report, LAMBDA e : e.class \in cs)
    IN [k \in DOMAIN kept |-> kept[k].sentence]

\* C3: when the report is complete, every diff entry has been classified MATCHED,
\* MISSING_FROM_XML or EXTRA_IN_XML; the MATCHED and MISSING_FROM_XML entries are
\* exactly the PDF sentences in order, the MATCHED and EXTRA_IN_XML entries exactly
\* the XML sentences in order; and for P = [A., B., C.], X = [A., C.] the classes are
\* MATCHED, MISSING_FROM_XML, MATCHED.
C3_AlignmentClassification ==
    (tool = "align" /\ pc = "done") =>
        /\ \A k \in DOMAIN report :
              report[k].class \in {"MATCHED", "MISSING_FROM_XML", "EXTRA_IN_XML"}
        /\ SentencesClassed({"MATCHED", "MISSING_FROM_XML"}) = pdf_sent
        /\ SentencesClassed({"MATCHED", "EXTRA_IN_XML"}) = xml_sent
        /\ (pdf_sent = <<SentA, SentB, SentC>> /\ xml_sent = <<SentA, SentC>>) =>
              [k \in DOMAIN report |-> report[k].class]
                  = <<"MATCHED", "MISSING_FROM_XML", "MATCHED">>

RECURSIVE Concat(_)
\* the concatenation of the strings of a list
Concat(ss) == IF ss = <<>> THEN <<>> ELSE Head(ss) \o Concat(Tail(ss))

\* C4: every PDF paragraph handled so far is FOUND exactly when the first 60
\* characters of its lower-cased text occur in the lower-cased concatenation of all
\* XML paragraphs, and MISSING otherwise.
C4_ContainmentClassification ==
    tool = "contain" =>
        \A k \in DOMAIN statuses :
            statuses[k] = IF IsSubstring(Prefix(Lower(pdf_paras[k]), PrefixLen),
                                         Lower(Concat(xml_pool)))
                          THEN "FOUND" ELSE "MISSING"

\* C11: once the main flow has looked at its input, a run whose PDF side or XML side
\* is empty is in an explicit no-data outcome: it has not gone on to draw the table
\* (containment mode) or the scan report (alignment mode).
C11_EmptyInputNoData ==
    /\ (tool = "contain" /\ pc # "main" /\ (pdf_paras = <<>> \/ xml_pool = <<>>))
          => pc = "no_pdf_text"
    /\ (tool = "align" /\ pc # "compare" /\ (pdf_sent = <<>> \/ xml_sent = <<>>))
          => pc = "no_data"

\* the diff entries that are sentences of one side or of both: every line of the
\* diff but Differ's "? " hint lines
IsSentenceEntry(entry) == entry[1] \in {" ", "-", "+"}

\* how many of the first k diff entries are sentence entries
SentenceEntriesUpTo(k) == Cardinality({i \in 1..k : IsSentenceEntry(diff[i])})

\* C12: the report follows the diff entry by entry, in the diff's order, and the line
\* number shown for a sentence entry is its 1-based position among the sentence
\* entries: hint lines of the diff consume no number.
C12_ReportOrderAndNumbering ==
    tool = "align" =>
        \A k \in DOMAIN report :
            /\ report[k].sentence = SubSeq(diff[k], 3, Len(diff[k]))
            /\ IsSentenceEntry(diff[k]) => report[k].line = SentenceEntriesUpTo(k)

\* the Auditor's message for the rule a record of the Auto-Fixer names; the empty set
\* for a rule the Auditor has no message for
AuditorCounterpart(what) ==
    CASE what = "Missing Publisher Loc" -> {"Missing <publisher-loc>"}
      [] what = "Uniform Bold Removal" -> {"Uniform Bold Emphasis found in Title"}
      [] OTHER -> {}

\* what the read-only Auditor reports for node n of the tree as parsed
AuditorReports(n) ==
    IF n \in DOMAIN orig
    THEN {v.violation : v \in Range(AuditViolations(orig, n, is_bits))}
    ELSE {}

\* C13: in the first pass over a document, whatever (node, rule) the Auto-Fixer has
\* acted on is a violation the Auditor reports for that node on the tree as parsed,
\* under the same dialect flag.
C13_FixerWithinAuditor ==
    (tool = "fix" /\ run = 1) =>
        \A i \in DOMAIN records :
            AuditorCounterpart(records[i].violation) \cap AuditorReports(records[i].node) # {}

====
